---- MODULE Spec2Model ----
(***************************************************************************)
(* Model of the Minesweeper board engine of src/main.rs: Board::new,       *)
(* Board::flag_cell, Board::reveal_cell and the flood fill                 *)
(* Board::reveal_cell_dfs, Board::get_cell_state, the Display of a Board   *)
(* and the redraw UIGrid::draw.  Rows and columns are 0-based, as in the   *)
(* source.                                                                 *)
(***************************************************************************)
EXTENDS Integers, Sequences, FiniteSets, TLC

\* Largest width, height and mine count handed to Board::new, and hence the
\* largest row and column handed to reveal_cell and flag_cell.
MaxWidth == 3
MaxHeight == 3
MaxMines == 2

VARIABLES
    grid,       \* Board.grid: row -> col -> CellState (0-based)
    game_over,  \* Board.game_over
    pc,         \* "start" before Board::new, "ready" with a Board, "panic" after a panic
    call,       \* the call that has just completed, with its arguments
    before      \* the Board as that call found it

vars == <<grid, game_over, pc, call, before>>

----------------------------------------------------------------------------
\* enum CellState { Mine(revealed, flagged), Neighbours(revealed, count) }

Mine(revealed, flagged) ==
    [kind |-> "Mine", revealed |-> revealed, flagged |-> flagged]

Neighbours(revealed, value) ==
    [kind |-> "Neighbours", revealed |-> revealed, value |-> value]

IsMine(cell) == cell.kind = "Mine"

IsClue(cell) == cell.kind = "Neighbours"

\* const ALL_DIRECTIONS, in the order of the source
ALL_DIRECTIONS == <<"N", "E", "S", "W", "NE", "SE", "SW", "NW">>

\* Direction::offset whose SW arm repeats the SE arm's coordinate
offset_sw_as_se(direction, row, col) ==
    CASE direction = "N" /\ row > 0 -> << <<row - 1, col>> >>
      [] direction = "E" -> << <<row, col + 1>> >>
      [] direction = "S" -> << <<row + 1, col>> >>
      [] direction = "W" /\ col > 0 -> << <<row, col - 1>> >>
      [] direction = "NE" /\ row > 0 -> << <<row - 1, col + 1>> >>
      [] direction = "SE" -> << <<row + 1, col + 1>> >>
      [] direction = "SW" /\ col > 0 -> << <<row + 1, col + 1>> >>
      [] direction = "NW" /\ row > 0 /\ col > 0 -> << <<row - 1, col - 1>> >>
      [] OTHER -> << >>

\* Direction::offset: Option<(row, col)> as a sequence of length at most one
offset(direction, row, col) ==
    CASE direction = "N" /\ row > 0 -> << <<row - 1, col>> >>
      [] direction = "E" -> << <<row, col + 1>> >>
      [] direction = "S" -> << <<row + 1, col>> >>
      [] direction = "W" /\ col > 0 -> << <<row, col - 1>> >>
      [] direction = "NE" /\ row > 0 -> << <<row - 1, col + 1>> >>
      [] direction = "SE" -> << <<row + 1, col + 1>> >>
      [] direction = "SW" /\ col > 0 -> << <<row + 1, col - 1>> >>
      [] direction = "NW" /\ row > 0 /\ col > 0 -> << <<row - 1, col - 1>> >>
      [] OTHER -> << >>

in_bounds(w, h, row, col) == row < h /\ col < w

\* Board::height and Board::width, read off the grid
height(g) == Cardinality(DOMAIN g)

width(g) == Cardinality(DOMAIN g[0])

\* Whether grid[row][col] is an index Vec accepts (otherwise the index panics)
IndexOk(g, row, col) == row \in DOMAIN g /\ col \in DOMAIN g[row]

\* The value of a Board, and the outcome of a call on it
\* The counters of one flood fill: reveal_cell_dfs invocations, insertions into
\* `closed`, and the deepest nesting at an invocation and at an insertion
NoDfs == [calls |-> 0, inserts |-> 0, frames |-> 0, deep |-> 0, closed |-> {}]

BoardOf(g, over) ==
    [grid |-> g, game_over |-> over, panicked |-> FALSE, dfs |-> NoDfs]

Panicked(b) == [b EXCEPT !.panicked = TRUE]

----------------------------------------------------------------------------
\* Board::new

\* The grid and the coordinate list built by the first loop of Board::new:
\* every cell Neighbours(false, 0), every coordinate pushed as (col, row)
EmptyGrid(w, h) ==
    [row \in 0..(h - 1) |-> [col \in 0..(w - 1) |-> Neighbours(FALSE, 0)]]

\* The coordinate list with each coordinate pushed as (row, col)
AllCoords_row_first(w, h) ==
    [k \in 1..(w * h) |-> <<(k - 1) \div w, (k - 1) % w>>]

AllCoords(w, h) ==
    [k \in 1..(w * h) |-> <<(k - 1) % w, (k - 1) \div w>>]

\* select_random_coords: the slices partial_shuffle can return, that is every
\* arrangement of min(number, len) distinct elements of coords
select_random_coords(coords, number) ==
    LET n == IF number < Len(coords) THEN number ELSE Len(coords)
    IN  {s \in [1..n -> {coords[k] : k \in 1..Len(coords)}] :
            \A i, j \in 1..n : i # j => s[i] # s[j]}

\* The inner loop of Board::new over ALL_DIRECTIONS, from direction k on: each
\* in-bounds neighbour that is a Neighbours cell gets its count incremented.
\* grid[o_row] panics on a row the grid lacks; get_mut(o_col) is None on a
\* column the row lacks.  st is the grid and whether an index panicked.
RECURSIVE IncrementNeighbours(_, _, _, _, _, _)
IncrementNeighbours(st, w, h, row, col, k) ==
    IF k > Len(ALL_DIRECTIONS) \/ st.panicked THEN st
    ELSE LET o == offset(ALL_DIRECTIONS[k], row, col)
             st2 == IF o # << >> /\ in_bounds(w, h, o[1][1], o[1][2])
                    THEN IF o[1][1] \notin DOMAIN st.grid
                         THEN [st EXCEPT !.panicked = TRUE]
                         ELSE IF o[1][2] \in DOMAIN st.grid[o[1][1]]
                                 /\ IsClue(st.grid[o[1][1]][o[1][2]])
                         THEN [st EXCEPT !.grid[o[1][1]][o[1][2]].value = @ + 1]
                         ELSE st
                    ELSE st
         IN  IncrementNeighbours(st2, w, h, row, col, k + 1)

\* The loop of Board::new run over the selected slice only (`for i in
\* 0..coords.len()`): it ends with the slice instead of indexing past it
RECURSIVE PlaceMines_over_slice(_, _, _, _, _, _)
PlaceMines_over_slice(st, w, h, selected, mines, i) ==
    IF i > mines \/ i > Len(selected) \/ st.panicked THEN st
    ELSE LET col == selected[i][1]
             row == selected[i][2]
         IN  IF ~IndexOk(st.grid, row, col) THEN [st EXCEPT !.panicked = TRUE]
             ELSE PlaceMines_over_slice(
                      IncrementNeighbours(
                          [st EXCEPT !.grid[row][col] = Mine(FALSE, FALSE)],
                          w, h, row, col, 1),
                      w, h, selected, mines, i + 1)

\* The loop `for i in 0..mines` of Board::new, from the i-th mine on (1-based):
\* coords[i] panics once i passes the end of the selected slice, and
\* grid[row][col] panics on a cell the grid lacks
RECURSIVE PlaceMines(_, _, _, _, _, _)
PlaceMines(st, w, h, selected, mines, i) ==
    IF i > mines \/ st.panicked THEN st
    ELSE IF i > Len(selected) THEN [st EXCEPT !.panicked = TRUE]
    ELSE LET col == selected[i][1]
             row == selected[i][2]
         IN  IF ~IndexOk(st.grid, row, col) THEN [st EXCEPT !.panicked = TRUE]
             ELSE PlaceMines(
                      IncrementNeighbours(
                          [st EXCEPT !.grid[row][col] = Mine(FALSE, FALSE)],
                          w, h, row, col, 1),
                      w, h, selected, mines, i + 1)

\* Board::new(width, height, mines) with `selected` the slice the shuffle
\* returned: the Board, or a panic (a failed assert, an index past the slice)
Board_new(w, h, mines, selected) ==
    IF ~(w > 0) \/ ~(h > 0) THEN Panicked(BoardOf(<< >>, FALSE))
    ELSE LET r == PlaceMines([grid |-> EmptyGrid(w, h), panicked |-> FALSE],
                             w, h, selected, mines, 1)
         IN  IF r.panicked THEN Panicked(BoardOf(<< >>, FALSE))
             ELSE BoardOf(r.grid, FALSE)

----------------------------------------------------------------------------
\* Board::flag_cell

\* flag_cell whose second arm is missing: a flag, once set, stays
flag_cell_set_only(b, row, col) ==
    IF ~in_bounds(width(b.grid), height(b.grid), row, col) THEN b
    ELSE IF ~IndexOk(b.grid, row, col) THEN Panicked(b)
    ELSE LET cell == b.grid[row][col]
         IN  IF IsMine(cell) /\ cell.revealed = FALSE /\ cell.flagged = FALSE
             THEN [b EXCEPT !.grid[row][col].flagged = TRUE]
             ELSE b

\* flag_cell without its in_bounds check: the index is what stops it
flag_cell_unchecked(b, row, col) ==
    IF ~IndexOk(b.grid, row, col) THEN Panicked(b)
    ELSE LET cell == b.grid[row][col]
         IN  IF IsMine(cell) /\ cell.revealed = FALSE /\ cell.flagged = FALSE
             THEN [b EXCEPT !.grid[row][col].flagged = TRUE]
             ELSE IF IsMine(cell) /\ cell.revealed = FALSE /\ cell.flagged = TRUE
             THEN [b EXCEPT !.grid[row][col].flagged = FALSE]
             ELSE b

\* flag_cell whose arms match Mine(_, flagged): a revealed mine is toggled too
flag_cell_any_mine(b, row, col) ==
    IF ~in_bounds(width(b.grid), height(b.grid), row, col) THEN b
    ELSE IF ~IndexOk(b.grid, row, col) THEN Panicked(b)
    ELSE LET cell == b.grid[row][col]
         IN  IF IsMine(cell) /\ cell.flagged = FALSE
             THEN [b EXCEPT !.grid[row][col].flagged = TRUE]
             ELSE IF IsMine(cell) /\ cell.flagged = TRUE
             THEN [b EXCEPT !.grid[row][col].flagged = FALSE]
             ELSE b

\* flag_cell that returns at once when game_over, as reveal_cell does
flag_cell_in_game_only(b, row, col) ==
    IF b.game_over THEN b
    ELSE IF ~in_bounds(width(b.grid), height(b.grid), row, col) THEN b
    ELSE IF ~IndexOk(b.grid, row, col) THEN Panicked(b)
    ELSE LET cell == b.grid[row][col]
         IN  IF IsMine(cell) /\ cell.revealed = FALSE /\ cell.flagged = FALSE
             THEN [b EXCEPT !.grid[row][col].flagged = TRUE]
             ELSE IF IsMine(cell) /\ cell.revealed = FALSE /\ cell.flagged = TRUE
             THEN [b EXCEPT !.grid[row][col].flagged = FALSE]
             ELSE b

\* flag_cell whose first arm matches Mine(_, flagged): a revealed mine can be
\* flagged, though not unflagged
flag_cell_revealed_too(b, row, col) ==
    IF ~in_bounds(width(b.grid), height(b.grid), row, col) THEN b
    ELSE IF ~IndexOk(b.grid, row, col) THEN Panicked(b)
    ELSE LET cell == b.grid[row][col]
         IN  IF IsMine(cell) /\ cell.flagged = FALSE
             THEN [b EXCEPT !.grid[row][col].flagged = TRUE]
             ELSE IF IsMine(cell) /\ cell.revealed = FALSE /\ cell.flagged = TRUE
             THEN [b EXCEPT !.grid[row][col].flagged = FALSE]
             ELSE b

flag_cell(b, row, col) ==
    IF ~in_bounds(width(b.grid), height(b.grid), row, col) THEN b
    ELSE IF ~IndexOk(b.grid, row, col) THEN Panicked(b)
    ELSE LET cell == b.grid[row][col]
         IN  IF IsMine(cell) /\ cell.revealed = FALSE /\ cell.flagged = FALSE
             THEN [b EXCEPT !.grid[row][col].flagged = TRUE]
             ELSE IF IsMine(cell) /\ cell.revealed = FALSE /\ cell.flagged = TRUE
             THEN [b EXCEPT !.grid[row][col].flagged = FALSE]
             ELSE b

----------------------------------------------------------------------------
\* Board::reveal_cell_dfs.  The state threaded through the recursion is the
\* grid, the HashSet `closed`, and whether an index panicked.

\* `let mut closed = HashSet::new()`, and the call stack before the first
\* invocation
DfsStart(g) ==
    [grid |-> g, closed |-> {}, panicked |-> FALSE,
     calls |-> 0, inserts |-> 0, depth |-> 0, frames |-> 0, deep |-> 0]

\* An invocation pushes a frame and its return pops it
Enter(st) ==
    [st EXCEPT !.calls = @ + 1, !.depth = @ + 1,
               !.frames = IF st.depth + 1 > @ THEN st.depth + 1 ELSE @]

Leave(st) == [st EXCEPT !.depth = @ - 1]

\* `closed.insert((row, col))`
Insert(st, row, col) ==
    [st EXCEPT !.closed = @ \cup {<<row, col>>}, !.inserts = @ + 1,
               !.deep = IF st.depth > @ THEN st.depth ELSE @]

\* What a finished flood fill leaves to be observed
DfsOf(st) ==
    [calls |-> st.calls, inserts |-> st.inserts, frames |-> st.frames,
     deep |-> st.deep, closed |-> st.closed]

RECURSIVE reveal_cell_dfs(_, _, _)
RECURSIVE RevealNeighbours(_, _, _, _)
RECURSIVE RevealNeighbours_orthogonal(_, _, _, _)

\* The loop over N, E, S and W only: the diagonal neighbours are left out
RevealNeighbours_orthogonal(st, row, col, k) ==
    IF k > 4 \/ st.panicked THEN st
    ELSE LET o == offset(ALL_DIRECTIONS[k], row, col)
             st2 == IF o # << >> THEN reveal_cell_dfs(st, o[1][1], o[1][2]) ELSE st
         IN  RevealNeighbours_orthogonal(st2, row, col, k + 1)

\* The loop over ALL_DIRECTIONS in the zero-count arm, from direction k on
RevealNeighbours(st, row, col, k) ==
    IF k > Len(ALL_DIRECTIONS) \/ st.panicked THEN st
    ELSE LET o == offset(ALL_DIRECTIONS[k], row, col)
             st2 == IF o # << >> THEN reveal_cell_dfs(st, o[1][1], o[1][2]) ELSE st
         IN  RevealNeighbours(st2, row, col, k + 1)

\* reveal_cell_dfs whose zero-count arm takes every unrevealed clue cell: a
\* numbered cell spreads the reveal too
reveal_cell_dfs_spreading(st0, row, col) ==
    LET st == Enter(st0)
    IN  Leave(
        IF ~in_bounds(width(st.grid), height(st.grid), row, col) THEN st
        ELSE IF <<row, col>> \in st.closed THEN st
        ELSE IF ~IndexOk(st.grid, row, col) THEN [st EXCEPT !.panicked = TRUE]
        ELSE LET st2 == Insert(st, row, col)
                 cell == st.grid[row][col]
             IN  IF IsClue(cell) /\ cell.revealed = TRUE THEN st2
                 ELSE IF IsClue(cell)
                 THEN RevealNeighbours([st2 EXCEPT !.grid[row][col].revealed = TRUE],
                                       row, col, 1)
                 ELSE st2)

\* reveal_cell_dfs without its `if closed.contains(&(row, col)) { return }`
reveal_cell_dfs_unchecked(st0, row, col) ==
    LET st == Enter(st0)
    IN  Leave(
        IF ~in_bounds(width(st.grid), height(st.grid), row, col) THEN st
        ELSE IF ~IndexOk(st.grid, row, col) THEN [st EXCEPT !.panicked = TRUE]
        ELSE LET st2 == Insert(st, row, col)
                 cell == st.grid[row][col]
             IN  IF IsClue(cell) /\ cell.revealed = TRUE THEN st2
                 ELSE IF IsClue(cell) /\ cell.value > 0
                 THEN [st2 EXCEPT !.grid[row][col].revealed = TRUE]
                 ELSE IF IsClue(cell) /\ cell.value = 0
                 THEN RevealNeighbours([st2 EXCEPT !.grid[row][col].revealed = TRUE],
                                       row, col, 1)
                 ELSE st2)

\* reveal_cell_dfs whose numbered arm stores a fresh Neighbours(true, 0): the
\* count of the cell is lost
reveal_cell_dfs_count_lost(st0, row, col) ==
    LET st == Enter(st0)
    IN  Leave(
        IF ~in_bounds(width(st.grid), height(st.grid), row, col) THEN st
        ELSE IF <<row, col>> \in st.closed THEN st
        ELSE IF ~IndexOk(st.grid, row, col) THEN [st EXCEPT !.panicked = TRUE]
        ELSE LET st2 == Insert(st, row, col)
                 cell == st.grid[row][col]
             IN  IF IsClue(cell) /\ cell.revealed = TRUE THEN st2
                 ELSE IF IsClue(cell) /\ cell.value > 0
                 THEN [st2 EXCEPT !.grid[row][col] = Neighbours(TRUE, 0)]
                 ELSE IF IsClue(cell) /\ cell.value = 0
                 THEN RevealNeighbours([st2 EXCEPT !.grid[row][col].revealed = TRUE],
                                       row, col, 1)
                 ELSE st2)

\* reveal_cell_dfs whose zero-count arm reveals the cell and does not visit its
\* neighbours
reveal_cell_dfs_no_spread(st0, row, col) ==
    LET st == Enter(st0)
    IN  Leave(
        IF ~in_bounds(width(st.grid), height(st.grid), row, col) THEN st
        ELSE IF <<row, col>> \in st.closed THEN st
        ELSE IF ~IndexOk(st.grid, row, col) THEN [st EXCEPT !.panicked = TRUE]
        ELSE LET st2 == Insert(st, row, col)
                 cell == st.grid[row][col]
             IN  IF IsClue(cell) /\ cell.revealed = TRUE THEN st2
                 ELSE IF IsClue(cell)
                 THEN [st2 EXCEPT !.grid[row][col].revealed = TRUE]
                 ELSE st2)

\* reveal_cell_dfs whose arm for an already-revealed clue cell visits the
\* neighbours of the cell instead of stopping
reveal_cell_dfs_chording(st0, row, col) ==
    LET st == Enter(st0)
    IN  Leave(
        IF ~in_bounds(width(st.grid), height(st.grid), row, col) THEN st
        ELSE IF <<row, col>> \in st.closed THEN st
        ELSE IF ~IndexOk(st.grid, row, col) THEN [st EXCEPT !.panicked = TRUE]
        ELSE LET st2 == Insert(st, row, col)
                 cell == st.grid[row][col]
             IN  IF IsClue(cell) /\ cell.revealed = TRUE
                 THEN RevealNeighbours(st2, row, col, 1)
                 ELSE IF IsClue(cell) /\ cell.value > 0
                 THEN [st2 EXCEPT !.grid[row][col].revealed = TRUE]
                 ELSE IF IsClue(cell) /\ cell.value = 0
                 THEN RevealNeighbours([st2 EXCEPT !.grid[row][col].revealed = TRUE],
                                       row, col, 1)
                 ELSE st2)

reveal_cell_dfs(st0, row, col) ==
    LET st == Enter(st0)
    IN  Leave(
        IF ~in_bounds(width(st.grid), height(st.grid), row, col) THEN st
        ELSE IF <<row, col>> \in st.closed THEN st
        ELSE IF ~IndexOk(st.grid, row, col) THEN [st EXCEPT !.panicked = TRUE]
        ELSE LET st2 == Insert(st, row, col)
                 cell == st.grid[row][col]
             IN  IF IsClue(cell) /\ cell.revealed = TRUE THEN st2
                 ELSE IF IsClue(cell) /\ cell.value > 0
                 THEN [st2 EXCEPT !.grid[row][col].revealed = TRUE]
                 ELSE IF IsClue(cell) /\ cell.value = 0
                 THEN RevealNeighbours([st2 EXCEPT !.grid[row][col].revealed = TRUE],
                                       row, col, 1)
                 ELSE st2)

----------------------------------------------------------------------------
\* Board::reveal_cell

\* reveal_cell without its `if self.game_over { return }`
reveal_cell_after_loss(b, row, col) ==
    IF ~in_bounds(width(b.grid), height(b.grid), row, col) THEN b
    ELSE IF ~IndexOk(b.grid, row, col) THEN Panicked(b)
    ELSE LET cell == b.grid[row][col]
         IN  IF IsMine(cell) /\ cell.flagged = FALSE /\ cell.revealed = FALSE
             THEN [b EXCEPT !.grid[row][col].revealed = TRUE, !.game_over = TRUE]
             ELSE IF IsMine(cell) /\ cell.flagged = TRUE /\ cell.revealed = FALSE
             THEN b
             ELSE LET st == reveal_cell_dfs(DfsStart(b.grid), row, col)
                  IN  [b EXCEPT !.grid = st.grid, !.panicked = st.panicked,
                                !.dfs = DfsOf(st)]

\* reveal_cell whose first arm matches Mine(revealed, _): the flag is not looked at
reveal_cell_through_flag(b, row, col) ==
    IF b.game_over THEN b
    ELSE IF ~in_bounds(width(b.grid), height(b.grid), row, col) THEN b
    ELSE IF ~IndexOk(b.grid, row, col) THEN Panicked(b)
    ELSE LET cell == b.grid[row][col]
         IN  IF IsMine(cell) /\ cell.revealed = FALSE
             THEN [b EXCEPT !.grid[row][col].revealed = TRUE, !.game_over = TRUE]
             ELSE LET st == reveal_cell_dfs(DfsStart(b.grid), row, col)
                  IN  [b EXCEPT !.grid = st.grid, !.panicked = st.panicked,
                                !.dfs = DfsOf(st)]

\* reveal_cell whose mine arm reveals the mine without `self.game_over = true`
reveal_cell_silent_loss(b, row, col) ==
    IF b.game_over THEN b
    ELSE IF ~in_bounds(width(b.grid), height(b.grid), row, col) THEN b
    ELSE IF ~IndexOk(b.grid, row, col) THEN Panicked(b)
    ELSE LET cell == b.grid[row][col]
         IN  IF IsMine(cell) /\ cell.flagged = FALSE /\ cell.revealed = FALSE
             THEN [b EXCEPT !.grid[row][col].revealed = TRUE]
             ELSE IF IsMine(cell) /\ cell.flagged = TRUE /\ cell.revealed = FALSE
             THEN b
             ELSE LET st == reveal_cell_dfs(DfsStart(b.grid), row, col)
                  IN  [b EXCEPT !.grid = st.grid, !.panicked = st.panicked,
                                !.dfs = DfsOf(st)]

reveal_cell(b, row, col) ==
    IF b.game_over THEN b
    ELSE IF ~in_bounds(width(b.grid), height(b.grid), row, col) THEN b
    ELSE IF ~IndexOk(b.grid, row, col) THEN Panicked(b)
    ELSE LET cell == b.grid[row][col]
         IN  IF IsMine(cell) /\ cell.flagged = FALSE /\ cell.revealed = FALSE
             THEN [b EXCEPT !.grid[row][col].revealed = TRUE, !.game_over = TRUE]
             ELSE IF IsMine(cell) /\ cell.flagged = TRUE /\ cell.revealed = FALSE
             THEN b
             ELSE LET st == reveal_cell_dfs(DfsStart(b.grid), row, col)
                  IN  [b EXCEPT !.grid = st.grid, !.panicked = st.panicked,
                                !.dfs = DfsOf(st)]

----------------------------------------------------------------------------
\* impl fmt::Display for CellState and for Board

\* format!("{}", n) of an unsigned integer: its decimal digits
RECURSIVE Decimal(_)
Decimal(n) ==
    LET digit == <<"0", "1", "2", "3", "4", "5", "6", "7", "8", "9">>[(n % 10) + 1]
    IN  IF n < 10 THEN digit ELSE Decimal(n \div 10) \o digit

\* The Display of a cell that writes nothing for a count of zero, as the
\* canvas does
fmt_CellState_blank_zero(cell) ==
    IF IsMine(cell) /\ cell.revealed = TRUE /\ cell.flagged = FALSE THEN "X"
    ELSE IF IsMine(cell) /\ cell.revealed = FALSE /\ cell.flagged = TRUE THEN "!"
    ELSE IF IsClue(cell) /\ cell.revealed = TRUE /\ cell.value # 0
    THEN Decimal(cell.value)
    ELSE " "

fmt_CellState(cell) ==
    IF IsMine(cell) /\ cell.revealed = TRUE /\ cell.flagged = FALSE THEN "X"
    ELSE IF IsMine(cell) /\ cell.revealed = FALSE /\ cell.flagged = TRUE THEN "!"
    ELSE IF IsClue(cell) /\ cell.revealed = TRUE THEN Decimal(cell.value)
    ELSE " "

\* `for _ in 0..n { write!(f, "----") }`
RECURSIVE Dashes(_)
Dashes(n) == IF n = 0 THEN "" ELSE "----" \o Dashes(n - 1)

\* `for cell in row { write!(f, "| {} ", cell) }`, from column col on
RECURSIVE fmt_Row(_, _)
fmt_Row(cells, col) ==
    IF col \notin DOMAIN cells THEN ""
    ELSE "| " \o fmt_CellState(cells[col]) \o " " \o fmt_Row(cells, col + 1)

\* `for row in &self.grid { ... }`, from row `row` on
RECURSIVE fmt_Rows(_, _)
fmt_Rows(g, row) ==
    IF row \notin DOMAIN g THEN ""
    ELSE fmt_Row(g[row], 0) \o "|\n-" \o Dashes(Cardinality(DOMAIN g[row]))
             \o "\n" \o fmt_Rows(g, row + 1)

fmt_Board(g) == Dashes(width(g)) \o "-\n" \o fmt_Rows(g, 0)

----------------------------------------------------------------------------
\* Board::get_cell_state; the Option it returns is a sequence of at most one
\* cell, and `&self` leaves the Board as it is

\* get_cell_state with the extents passed to in_bounds in the wrong order
get_cell_state_transposed(b, row, col) ==
    IF ~in_bounds(height(b.grid), width(b.grid), row, col)
    THEN [board |-> b, result |-> << >>]
    ELSE IF ~IndexOk(b.grid, row, col)
    THEN [board |-> Panicked(b), result |-> << >>]
    ELSE [board |-> b, result |-> <<b.grid[row][col]>>]

get_cell_state(b, row, col) ==
    IF ~in_bounds(width(b.grid), height(b.grid), row, col)
    THEN [board |-> b, result |-> << >>]
    ELSE IF ~IndexOk(b.grid, row, col)
    THEN [board |-> Panicked(b), result |-> << >>]
    ELSE [board |-> b, result |-> <<b.grid[row][col]>>]

----------------------------------------------------------------------------
\* UIGrid::draw: the closure that paints the canvas

\* The colour of a cell and the text written on it, from the match on the
\* Option that get_cell_state returned
Paint(cell) ==
    IF cell = Mine(TRUE, FALSE) THEN [color |-> "red", text |-> ""]
    ELSE IF cell = Mine(FALSE, TRUE) THEN [color |-> "yellow", text |-> ""]
    ELSE IF IsClue(cell) /\ cell.revealed = TRUE
    THEN [color |-> "blue",
          text |-> IF cell.value # 0 THEN Decimal(cell.value) ELSE ""]
    ELSE [color |-> "green", text |-> ""]

\* `for row in 0..self.board.width() { for col in 0..self.board.height() {`
\* from (row, col) on: the coordinates passed to get_cell_state are recorded in
\* `queried`, the cells painted in `painted`; None is the panic
RECURSIVE draw_loop(_, _, _)
draw_loop(d, row, col) ==
    IF d.board.panicked THEN d
    ELSE IF row >= width(d.board.grid) THEN d
    ELSE IF col >= height(d.board.grid) THEN draw_loop(d, row + 1, 0)
    ELSE LET r == get_cell_state(d.board, row, col)
             d2 == [d EXCEPT !.board = r.board,
                             !.queried = Append(@, <<row, col>>)]
         IN  IF r.board.panicked THEN d2
             ELSE IF r.result = << >>
             THEN [d2 EXCEPT !.board = Panicked(@)]
             ELSE draw_loop(
                      [d2 EXCEPT !.painted =
                          Append(@, [row |-> row, col |-> col,
                                     paint |-> Paint(r.result[1])])],
                      row, col + 1)

draw(b) == draw_loop([board |-> b, queried |-> << >>, painted |-> << >>], 0, 0)

----------------------------------------------------------------------------
\* The state machine: Minesweeper::new builds one Board, then the event loop
\* hands UIGrid::update any sequence of Reveal(row, col) and Flag(row, col)
\* messages, rows and columns in and out of bounds, one at a time.

Rows == 0..MaxHeight

Cols == 0..MaxWidth

Board == BoardOf(grid, game_over)

NoBoard == BoardOf(<< >>, FALSE)

NoCall == [op |-> "none"]

\* The state a call leaves: its Board, or a panic
Outcome(b) ==
    /\ grid' = b.grid
    /\ game_over' = b.game_over
    /\ pc' = IF b.panicked THEN "panic" ELSE "ready"

Init ==
    /\ grid = << >>
    /\ game_over = FALSE
    /\ pc = "start"
    /\ call = NoCall
    /\ before = NoBoard

New ==
    /\ pc = "start"
    /\ \E w \in 0..MaxWidth, h \in 0..MaxHeight, mines \in 0..MaxMines :
         \E selected \in select_random_coords(AllCoords(w, h), mines) :
            /\ Outcome(Board_new(w, h, mines, selected))
            /\ call' = [op |-> "new", width |-> w, height |-> h, mines |-> mines]
    /\ before' = NoBoard

RevealCell ==
    /\ pc = "ready"
    /\ call = NoCall
    /\ \E row \in Rows, col \in Cols :
         /\ Outcome(reveal_cell(Board, row, col))
         /\ call' = [op |-> "reveal_cell", row |-> row, col |-> col,
                     dfs |-> reveal_cell(Board, row, col).dfs]
    /\ before' = Board

FlagCell ==
    /\ pc = "ready"
    /\ call = NoCall
    /\ \E row \in Rows, col \in Cols :
         /\ Outcome(flag_cell(Board, row, col))
         /\ call' = [op |-> "flag_cell", row |-> row, col |-> col]
    /\ before' = Board

\* The Board is formatted with `{}`; it is borrowed immutably
Display ==
    /\ pc = "ready"
    /\ call = NoCall
    /\ call' = [op |-> "fmt", text |-> fmt_Board(grid)]
    /\ before' = Board
    /\ UNCHANGED <<grid, game_over, pc>>

\* One cell is queried
GetCellState ==
    /\ pc = "ready"
    /\ call = NoCall
    /\ \E row \in Rows, col \in Cols :
         LET r == get_cell_state(Board, row, col)
         IN  /\ Outcome(r.board)
             /\ call' = [op |-> "get_cell_state", row |-> row, col |-> col,
                         result |-> r.result]
    /\ before' = Board

\* The canvas is redrawn
Draw ==
    /\ pc = "ready"
    /\ call = NoCall
    /\ LET d == draw(Board)
       IN  /\ Outcome(d.board)
           /\ call' = [op |-> "draw", queried |-> d.queried, painted |-> d.painted]
    /\ before' = Board

\* The call returns to the event loop, which waits for the next message
Return ==
    /\ pc = "ready"
    /\ call # NoCall
    /\ call' = NoCall
    /\ before' = NoBoard
    /\ UNCHANGED <<grid, game_over, pc>>

Next == New \/ RevealCell \/ FlagCell \/ Display \/ GetCellState \/ Draw \/ Return

Spec == Init /\ [][Next]_vars

----------------------------------------------------------------------------
\* Vocabulary of the properties, independent of the code's own helpers

\* The coordinates of a grid
CellsOf(g) == {<<row, col>> : row \in DOMAIN g, col \in DOMAIN g[0]}

At(g, p) == g[p[1]][p[2]]

OnBoard(g, row, col) == <<row, col>> \in CellsOf(g)

Abs(n) == IF n < 0 THEN -n ELSE n

\* The 8-neighbours of p that lie on the grid
Adjacent(g, p) ==
    {q \in CellsOf(g) : q # p /\ Abs(q[1] - p[1]) <= 1 /\ Abs(q[2] - p[2]) <= 1}

RevealedCells(g) == {p \in CellsOf(g) : At(g, p).revealed}

MineCells(g) == {p \in CellsOf(g) : IsMine(At(g, p))}

ClueCells(g) == {p \in CellsOf(g) : IsClue(At(g, p))}

\* The call just completed was op, on a coordinate of the grid it found
CalledOnBoard(op) ==
    /\ call.op = op
    /\ OnBoard(before.grid, call.row, call.col)

\* The cell that call was aimed at, as the call found it
Target == At(before.grid, <<call.row, call.col>>)

----------------------------------------------------------------------------
\* C1: loss is terminal.  With game_over false, reveal_cell on an unrevealed,
\* unflagged mine marks that mine revealed and sets game_over; once game_over is
\* true every reveal_cell call, on any coordinate in or out of bounds, leaves
\* the whole board as it was, and no call ever sets game_over back to false.
LossIsTerminal ==
    /\ (/\ CalledOnBoard("reveal_cell")
        /\ ~before.game_over
        /\ Target = Mine(FALSE, FALSE))
       => /\ pc = "ready"
          /\ game_over
          /\ grid = [before.grid EXCEPT ![call.row][call.col] = Mine(TRUE, FALSE)]
    /\ (call.op = "reveal_cell" /\ before.game_over)
       => /\ pc = "ready"
          /\ game_over
          /\ grid = before.grid
    /\ (call.op = "flag_cell" /\ before.game_over) => game_over

\* A reveal_cell call made after the loss, on a clue cell still unrevealed
LossIsTerminalWitness ==
    /\ CalledOnBoard("reveal_cell")
    /\ before.game_over
    /\ game_over
    /\ IsClue(Target)
    /\ ~At(grid, <<call.row, call.col>>).revealed

\* C2: a flagged mine is protected.  With game_over false, reveal_cell on an
\* unrevealed flagged mine changes nothing: game_over stays false and the mine
\* stays unrevealed and flagged.
FlaggedMineProtected ==
    (/\ CalledOnBoard("reveal_cell")
     /\ ~before.game_over
     /\ Target = Mine(FALSE, TRUE))
    => /\ pc = "ready"
       /\ game_over = FALSE
       /\ grid = before.grid
       /\ At(grid, <<call.row, call.col>>) = Mine(FALSE, TRUE)

\* A reveal_cell call on a flagged mine in a game not yet lost
FlaggedMineProtectedWitness ==
    /\ CalledOnBoard("reveal_cell")
    /\ ~before.game_over
    /\ Target = Mine(FALSE, TRUE)
    /\ pc = "ready"

\* The cells of the 8-connected region of zero-count clue cells around the
\* cells of S, as a least fixed point
RECURSIVE ZeroRegion(_, _)
ZeroRegion(g, S) ==
    LET more == {q \in ClueCells(g) :
                    /\ At(g, q).value = 0
                    /\ \E p \in S : q \in Adjacent(g, p)}
    IN  IF more \subseteq S THEN S ELSE ZeroRegion(g, S \cup more)

\* A set of cells together with all their neighbours on the grid
WithBorder(g, S) == S \cup UNION {Adjacent(g, p) : p \in S}

\* C3: flood-fill result.  With game_over false, reveal_cell on an unrevealed
\* clue cell of count 0 leaves revealed exactly the cells revealed before, the
\* 8-connected region of zero-count clue cells around the target, and every
\* neighbour of that region; no mine cell is changed.  On a board without mines
\* one reveal_cell call on any of its cells reveals the whole board.
FloodFillResult ==
    /\ (/\ CalledOnBoard("reveal_cell")
        /\ ~before.game_over
        /\ Target = Neighbours(FALSE, 0))
       => LET region == ZeroRegion(before.grid, {<<call.row, call.col>>})
          IN  /\ pc = "ready"
              /\ game_over = FALSE
              /\ CellsOf(grid) = CellsOf(before.grid)
              /\ RevealedCells(grid) =
                     RevealedCells(before.grid) \cup WithBorder(before.grid, region)
              /\ \A p \in MineCells(before.grid) : At(grid, p) = At(before.grid, p)
    /\ (CalledOnBoard("reveal_cell") /\ MineCells(before.grid) = {})
       => /\ pc = "ready"
          /\ RevealedCells(grid) = CellsOf(before.grid)

\* A flood fill over a region of several zero cells with a numbered border,
\* on a board where some clue cell stays unrevealed
FloodFillResultWitness ==
    /\ CalledOnBoard("reveal_cell")
    /\ ~before.game_over
    /\ Target = Neighbours(FALSE, 0)
    /\ LET region == ZeroRegion(before.grid, {<<call.row, call.col>>})
       IN  /\ Cardinality(region) >= 2
           /\ \E p \in WithBorder(before.grid, region) :
                /\ At(before.grid, p).value > 0
                /\ ~At(before.grid, p).revealed
                /\ At(grid, p).revealed
    /\ \E p \in ClueCells(grid) : ~At(grid, p).revealed

\* C4: neighbour counts are exact.  On every board Board::new returns, whatever
\* mines the shuffle selected and in whatever order they were processed, each
\* clue cell's count is the number of its 8-neighbours on the grid that are
\* mines, a value in 0..8; no later call changes that.
NeighbourCountsExact ==
    pc = "ready"
    => \A p \in ClueCells(grid) :
          /\ At(grid, p).value =
                 Cardinality({q \in Adjacent(grid, p) : IsMine(At(grid, q))})
          /\ At(grid, p).value \in 0..8

\* A board fresh from Board::new with two adjacent mines, a clue cell that
\* touches both and a clue cell that touches none
NeighbourCountsExactWitness ==
    /\ call.op = "new"
    /\ pc = "ready"
    /\ \E p, q \in MineCells(grid) : p # q /\ q \in Adjacent(grid, p)
    /\ \E p \in ClueCells(grid) : At(grid, p).value = 2
    /\ \E p \in ClueCells(grid) : At(grid, p).value = 0

\* C5: the mine count is exact.  Board::new(width, height, mines) with
\* width >= 1, height >= 1 and mines <= width * height returns a board of
\* height rows of width columns with exactly `mines` mine cells and
\* width * height - mines clue cells, every cell unrevealed and unflagged, and
\* game_over false.
MineCountExact ==
    (/\ call.op = "new"
     /\ call.width >= 1
     /\ call.height >= 1
     /\ call.mines <= call.width * call.height)
    => /\ pc = "ready"
       /\ DOMAIN grid = 0..(call.height - 1)
       /\ \A row \in DOMAIN grid : DOMAIN grid[row] = 0..(call.width - 1)
       /\ Cardinality(MineCells(grid)) = call.mines
       /\ Cardinality(ClueCells(grid)) = call.width * call.height - call.mines
       /\ \A p \in CellsOf(grid) : ~At(grid, p).revealed
       /\ \A p \in MineCells(grid) : ~At(grid, p).flagged
       /\ game_over = FALSE

\* A board of unequal sides returned for as many mines as it has cells
MineCountExactWitness ==
    /\ call.op = "new"
    /\ pc = "ready"
    /\ call.width # call.height
    /\ call.mines = call.width * call.height
    /\ call.mines >= 2
    /\ ClueCells(grid) = {}

\* The grid with the flagged bit of the cell at (row, col) flipped
Toggled(g, row, col) == [g EXCEPT ![row][col].flagged = ~@]

\* C6: the flag toggle is its own inverse.  One flag_cell call on an unrevealed
\* mine flips that mine's flagged bit and changes nothing else; a second
\* flag_cell call on the same cell returns the board to exactly the state
\* before the first.
FlagToggleInverse ==
    (/\ CalledOnBoard("flag_cell")
     /\ IsMine(Target)
     /\ ~Target.revealed)
    => /\ pc = "ready"
       /\ grid = Toggled(before.grid, call.row, call.col)
       /\ game_over = before.game_over
       /\ flag_cell(Board, call.row, call.col) = before

\* A flag_cell call that found an unrevealed mine flagged and left it
\* unflagged: the second call on that mine
FlagToggleInverseWitness ==
    /\ CalledOnBoard("flag_cell")
    /\ pc = "ready"
    /\ Target = Mine(FALSE, TRUE)
    /\ At(grid, <<call.row, call.col>>) = Mine(FALSE, FALSE)

\* C7: out-of-bounds calls never mutate.  reveal_cell and flag_cell with
\* row >= height or col >= width leave every cell and game_over as they were
\* and do not panic.
OutOfBoundsNoMutation ==
    (/\ call.op \in {"reveal_cell", "flag_cell"}
     /\ \/ call.row >= Cardinality(DOMAIN before.grid)
        \/ call.col >= Cardinality(DOMAIN before.grid[0]))
    => /\ pc = "ready"
       /\ grid = before.grid
       /\ game_over = before.game_over

\* A flag_cell call with row = height, on a board that has a mine in that column
OutOfBoundsNoMutationWitness ==
    /\ call.op = "flag_cell"
    /\ pc = "ready"
    /\ call.row = Cardinality(DOMAIN before.grid)
    /\ call.col \in DOMAIN before.grid[0]
    /\ \E p \in MineCells(before.grid) : p[2] = call.col

\* C8: the frame of flag_cell.  flag_cell(row, col) never changes game_over,
\* any cell other than (row, col), or any revealed bit; aimed at a clue cell,
\* revealed or not, or at a revealed mine, it leaves the whole board unchanged.
FlagCellFrame ==
    /\ call.op = "flag_cell"
       => /\ pc = "ready"
          /\ game_over = before.game_over
          /\ CellsOf(grid) = CellsOf(before.grid)
          /\ \A p \in CellsOf(before.grid) :
                /\ p # <<call.row, call.col>> => At(grid, p) = At(before.grid, p)
                /\ At(grid, p).revealed = At(before.grid, p).revealed
                /\ At(grid, p).kind = At(before.grid, p).kind
    /\ (/\ CalledOnBoard("flag_cell")
        /\ IsClue(Target) \/ Target.revealed)
       => grid = before.grid

\* A flag_cell call on the revealed mine of a lost game
FlagCellFrameWitness ==
    /\ CalledOnBoard("flag_cell")
    /\ pc = "ready"
    /\ Target = Mine(TRUE, FALSE)
    /\ \E p \in ClueCells(grid) : At(grid, p).revealed

\* C9: numbered cells stop the spread.  With game_over false, reveal_cell on
\* an unrevealed clue cell of count > 0 sets that one cell revealed and
\* changes no other cell; on a 3x3 board whose only mine is at (1, 1),
\* revealing (0, 0) reveals (0, 0) alone.
NumberedCellStopsSpread ==
    (/\ CalledOnBoard("reveal_cell")
     /\ ~before.game_over
     /\ IsClue(Target)
     /\ ~Target.revealed
     /\ Target.value > 0)
    => /\ pc = "ready"
       /\ game_over = FALSE
       /\ grid = [before.grid EXCEPT ![call.row][call.col].revealed = TRUE]

\* The 3x3 board whose only mine is at (1, 1), after its first call reveal_cell(0, 0)
NumberedCellStopsSpreadWitness ==
    /\ call.op = "reveal_cell"
    /\ call.row = 0
    /\ call.col = 0
    /\ pc = "ready"
    /\ CellsOf(grid) = (0..2) \X (0..2)
    /\ MineCells(grid) = {<<1, 1>>}
    /\ RevealedCells(before.grid) = {}
    /\ RevealedCells(grid) = {<<0, 0>>}

\* C10: flagging remains possible after game-over.  With game_over true,
\* flag_cell on an unrevealed mine still flips its flagged bit, and game_over
\* stays true.
FlagAfterGameOver ==
    (/\ CalledOnBoard("flag_cell")
     /\ before.game_over
     /\ IsMine(Target)
     /\ ~Target.revealed)
    => /\ pc = "ready"
       /\ game_over
       /\ At(grid, <<call.row, call.col>>).flagged = ~Target.flagged
       /\ At(grid, <<call.row, call.col>>).revealed = FALSE

\* A lost game in which flag_cell has just flagged a mine that was unflagged
FlagAfterGameOverWitness ==
    /\ CalledOnBoard("flag_cell")
    /\ before.game_over
    /\ game_over
    /\ Target = Mine(FALSE, FALSE)
    /\ At(grid, <<call.row, call.col>>) = Mine(FALSE, TRUE)

\* C11: invalid construction is rejected before a Board is produced.
\* Board::new with width = 0, height = 0 or mines > width * height never
\* returns: it panics, and no Board exists afterwards, in particular none
\* holding fewer mines than requested.
InvalidConstructionRejected ==
    (/\ call.op = "new"
     /\ \/ call.width = 0
        \/ call.height = 0
        \/ call.mines > call.width * call.height)
    => /\ pc = "panic"
       /\ grid = << >>

\* Board::new(1, 1, 2): both sides positive, more mines than cells
InvalidConstructionRejectedWitness ==
    /\ call = [op |-> "new", width |-> 1, height |-> 1, mines |-> 2]
    /\ pc = "panic"

\* What the textual rendering shows for a cell: X for a revealed mine, ! for a
\* flagged mine, the digit of its count for a revealed clue cell, a blank for
\* every other state
Glyph(cell) ==
    CASE cell = Mine(TRUE, FALSE) -> "X"
      [] cell = Mine(FALSE, TRUE) -> "!"
      [] IsClue(cell) /\ cell.revealed ->
             <<"0", "1", "2", "3", "4", "5", "6", "7", "8">>[cell.value + 1]
      [] OTHER -> " "

\* The text of a sequence of pieces
RECURSIVE Concat(_)
Concat(pieces) ==
    IF pieces = << >> THEN "" ELSE Head(pieces) \o Concat(Tail(pieces))

\* The row-by-row grid: a rule, then each row as "| g " per cell and a closing
\* bar, followed by a rule
Rule(g) == Concat([col \in 1..Cardinality(DOMAIN g[0]) |-> "----"])

GridText(g) ==
    LET w == Cardinality(DOMAIN g[0])
        h == Cardinality(DOMAIN g)
        line(row) ==
            Concat([col \in 1..w |-> "| " \o Glyph(g[row][col - 1]) \o " "])
                \o "|\n-" \o Rule(g) \o "\n"
    IN  Rule(g) \o "-\n" \o Concat([row \in 1..h |-> line(row - 1)])

GetCellStateContract ==
    call.op = "get_cell_state"
    => /\ pc = "ready"
       /\ Board = before
       /\ call.result = << >>
              <=> (call.row >= height(before.grid) \/ call.col >= width(before.grid))
       /\ call.result # << >>
              => call.result = <<At(before.grid, <<call.row, call.col>>)>>

\* A query past the last column of a board that is wider than high, where the
\* row index alone would pass for a column index
GetCellStateContractWitness ==
    /\ call.op = "get_cell_state"
    /\ pc = "ready"
    /\ width(before.grid) > height(before.grid)
    /\ call.row = height(before.grid)
    /\ call.col < width(before.grid)
    /\ call.result = << >>
    /\ \E p \in CellsOf(grid) : At(grid, p).revealed

Layout(g) ==
    [p \in CellsOf(g) |->
        IF IsMine(At(g, p)) THEN <<"Mine">> ELSE <<"Neighbours", At(g, p).value>>]

\* C15: the layout is immutable.  No reveal_cell or flag_cell call changes
\* width, height, the variant of any cell or the adjacent_mine_count of any
\* clue cell, so no sequence of them does; what a call may change is revealed
\* bits, the flagged bits of mines, and game_over.
LayoutImmutable ==
    (call.op \in {"reveal_cell", "flag_cell"} /\ pc = "ready")
    => /\ width(grid) = width(before.grid)
       /\ height(grid) = height(before.grid)
       /\ Layout(grid) = Layout(before.grid)
       /\ \A p \in ClueCells(grid) :
              At(grid, p).value = Cardinality(Adjacent(grid, p) \cap MineCells(grid))

\* A reveal that floods from a zero cell of a board with a flagged mine, up to
\* a cell that counts two mines
LayoutImmutableWitness ==
    /\ CalledOnBoard("reveal_cell")
    /\ pc = "ready"
    /\ Cardinality(RevealedCells(grid) \ RevealedCells(before.grid)) > 2
    /\ \E p \in MineCells(grid) : At(grid, p).flagged
    /\ \E p \in ClueCells(grid) : At(grid, p).revealed /\ At(grid, p).value = 2
    /\ \E p \in ClueCells(before.grid) : At(before.grid, p).revealed

\* C16: in every reachable state game_over is true if and only if some mine
\* cell is revealed, and at most one mine cell is revealed; a reveal_cell call
\* on a clue cell never sets game_over, and no call makes a revealed cell
\* unrevealed again.
GameOverIffMineRevealed ==
    pc = "ready"
    => /\ game_over <=> (MineCells(grid) \cap RevealedCells(grid) # {})
       /\ Cardinality(MineCells(grid) \cap RevealedCells(grid)) <= 1
       /\ (CalledOnBoard("reveal_cell") /\ IsClue(Target))
              => game_over = before.game_over
       /\ call.op \in {"reveal_cell", "flag_cell", "get_cell_state", "fmt"}
              => RevealedCells(before.grid) \subseteq RevealedCells(grid)

\* The last clue cell of a board with mines has just been revealed and the
\* game is not over
GameOverIffMineRevealedWitness ==
    /\ CalledOnBoard("reveal_cell")
    /\ pc = "ready"
    /\ IsClue(Target)
    /\ ~Target.revealed
    /\ ClueCells(grid) \subseteq RevealedCells(grid)
    /\ Cardinality(MineCells(grid)) = MaxMines
    /\ ~game_over

\* C17: in every reachable state no mine cell is both revealed and flagged,
\* Mine(true, true) is unreachable: reveal_cell leaves a flagged mine
\* unrevealed and flag_cell leaves a revealed mine unflagged.
NoRevealedFlaggedMine ==
    pc = "ready"
    => /\ \A p \in MineCells(grid) : At(grid, p) # Mine(TRUE, TRUE)
       /\ (CalledOnBoard("reveal_cell") /\ IsMine(Target) /\ Target.flagged)
              => ~At(grid, <<call.row, call.col>>).revealed
       /\ (CalledOnBoard("flag_cell") /\ IsMine(Target) /\ Target.revealed)
              => ~At(grid, <<call.row, call.col>>).flagged

\* After the loss flag_cell was called on the revealed mine, while another
\* mine carries a flag
NoRevealedFlaggedMineWitness ==
    /\ CalledOnBoard("flag_cell")
    /\ pc = "ready"
    /\ game_over
    /\ Target = Mine(TRUE, FALSE)
    /\ \E p \in MineCells(grid) : At(grid, p) = Mine(FALSE, TRUE)

\* C18: zero-closure.  In every reachable state, after any sequence of
\* completed reveal_cell and flag_cell calls, every revealed clue cell of count
\* 0 has all its neighbours on the grid revealed; hence the whole zero region
\* around it and the border of that region are revealed, and a flood fill that
\* stops at an already-revealed clue cell leaves no part of a zero region
\* unrevealed.
ZeroClosure ==
    pc = "ready"
    => \A p \in ClueCells(grid) :
           (At(grid, p).revealed /\ At(grid, p).value = 0)
           => /\ Adjacent(grid, p) \subseteq RevealedCells(grid)
              /\ WithBorder(grid, ZeroRegion(grid, {p})) \subseteq RevealedCells(grid)

\* A flood fill from a zero cell that met a clue cell revealed by an earlier
\* call, on the border of its region
ZeroClosureWitness ==
    /\ CalledOnBoard("reveal_cell")
    /\ pc = "ready"
    /\ Target = Neighbours(FALSE, 0)
    /\ At(grid, <<call.row, call.col>>).revealed
    /\ \E q \in WithBorder(before.grid, ZeroRegion(before.grid, {<<call.row, call.col>>})) :
           At(before.grid, q).revealed
    /\ \E q \in ClueCells(grid) : ~At(grid, q).revealed

\* Two outcomes are the same board: the same cells and the same game_over
SameBoard(x, y) ==
    /\ x.grid = y.grid
    /\ x.game_over = y.game_over
    /\ x.panicked = y.panicked

\* C19: reveal order does not matter for safe cells.  From a state with
\* game_over false, for any two clue coordinates a and b on the board,
\* reveal_cell(a) then reveal_cell(b) yields the same board as reveal_cell(b)
\* then reveal_cell(a), and reveal_cell(a) twice yields the same board as
\* once.  Here a is the coordinate of the call just completed, `before` the
\* state it started from and the current board its result.
RevealOrderIrrelevant ==
    (/\ CalledOnBoard("reveal_cell")
     /\ ~before.game_over
     /\ IsClue(Target))
    => /\ pc = "ready"
       /\ SameBoard(reveal_cell(Board, call.row, call.col), Board)
       /\ \A b \in ClueCells(before.grid) :
              SameBoard(reveal_cell(Board, b[1], b[2]),
                        reveal_cell(reveal_cell(before, b[1], b[2]),
                                    call.row, call.col))

\* reveal_cell(a) has revealed cells, and some other clue cell b, still
\* unrevealed, would on its own have revealed one of the same cells
RevealOrderIrrelevantWitness ==
    /\ CalledOnBoard("reveal_cell")
    /\ ~before.game_over
    /\ IsClue(Target)
    /\ pc = "ready"
    /\ \E b \in ClueCells(grid) :
         /\ ~At(grid, b).revealed
         /\ \E c \in RevealedCells(grid) \ RevealedCells(before.grid) :
                At(reveal_cell(before, b[1], b[2]).grid, c).revealed

\* The coordinates in a sequence
Range(seq) == {seq[i] : i \in DOMAIN seq}

\* C20: redraw stays in bounds.  For a Board of any width and height, width #
\* height included, the draw loop calls get_cell_state only with row < height
\* and col < width, visits every cell of the board, and never reaches its
\* panic!("out of bounds") branch.
DrawStaysInBounds ==
    call.op = "draw"
    => /\ pc = "ready"
       /\ \A q \in Range(call.queried) :
              q[1] < height(before.grid) /\ q[2] < width(before.grid)
       /\ Range(call.queried) = CellsOf(before.grid)

\* What the draw loop does do: on a board as wide as high it queries and
\* paints every cell once and returns; on any other board it panics, at the
\* first coordinate (row, col) with row >= height or col >= width, having
\* painted only cells of the common square
DrawOnSquareBoardsOnly ==
    call.op = "draw"
    => LET w == width(before.grid)
           h == height(before.grid)
       IN  /\ grid = before.grid /\ game_over = before.game_over
           /\ w = h
                => /\ pc = "ready"
                   /\ Range(call.queried) = CellsOf(before.grid)
                   /\ Len(call.queried) = w * h
                   /\ Len(call.painted) = w * h
           /\ w # h
                => /\ pc = "panic"
                   /\ call.queried[Len(call.queried)] =
                          (IF w > h THEN <<h, 0>> ELSE <<0, w>>)
                   /\ Len(call.painted) = Len(call.queried) - 1

\* The redraw of a board wider than high has panicked
DrawPanicsOnWideBoard ==
    /\ call.op = "draw"
    /\ pc = "panic"
    /\ width(before.grid) > height(before.grid)
    /\ Len(call.painted) > 0

====
